---- MODULE Spec2Model ----
(***************************************************************************)
(* Clause composition engine of mysql-contexts: the WhereBuilder of        *)
(* src/src/types.js and the join-chain constructor of                      *)
(* src/lib/src/contexts.js.                                                *)
(*                                                                         *)
(* SQL text is a sequence of tokens.  A condition token keeps the          *)
(* identifier as it is rendered (segments, and whether it is wrapped in    *)
(* backticks), the operator and the number of `?` placeholders, so that    *)
(* String.replace and string concatenation act on it as they act on the    *)
(* characters.                                                             *)
(*                                                                         *)
(* A nested callback is user code that runs in the middle of a condition   *)
(* method: the model keeps the call stack (one frame per builder whose     *)
(* callback is running) and the callback's own calls are steps.            *)
(***************************************************************************)
EXTENDS Integers, Sequences, FiniteSets, TLC

VARIABLES stack, fresh, log, nvals, last, joinKey, ctxs, jlast, jcall,
          order, okeys, olast, group, glog, oper, sent,
          context, listeners, cnn, flight, pooled, emitted

wvars == <<stack, fresh, log, nvals, last>>

jvars == <<joinKey, ctxs, jlast, jcall>>

ovars == <<order, okeys, olast>>

gvars == <<group, glog>>

cvars == <<oper, sent>>

evars == <<context, listeners, cnn, flight, pooled, emitted>>

vars == <<stack, fresh, log, nvals, last, joinKey, ctxs, jlast, jcall,
          order, okeys, olast, group, glog, oper, sent,
          context, listeners, cnn, flight, pooled, emitted>>

\* what the calls on one builder leave alone
notW == <<jvars, ovars, gvars, cvars, evars>>
notJ == <<wvars, ovars, gvars, cvars, evars>>
notO == <<wvars, jvars, gvars, cvars, evars>>
notG == <<wvars, jvars, ovars, cvars, evars>>
notC == <<wvars, jvars, ovars, gvars, evars>>
notE == <<wvars, jvars, ovars, gvars, cvars>>

----------------------------------------------------------------------------
(* Bounds *)

\* condition nodes appended in one run of the flat (all 30 methods) driver
MaxFlat == 2
\* condition nodes appended, over all nesting levels, in the nesting driver
MaxNodes == 3
\* join contexts constructed in one run
MaxJoins == 2
\* keys appended to one OrderBuilder
MaxKeys == 2
\* asc() / desc() calls made on the chain objects of one OrderBuilder
MaxDirs == 2
\* keys appended to one GroupBuilder
MaxGroups == 2

----------------------------------------------------------------------------
(* Inputs *)

Flavors == {"", "and", "or"}
BinOps == {"=", "<>", "<", "<=", ">", ">="}
InOps == {"IN", "NOT IN"}
NullOps == {"= NULL", "<> NULL"}
Ops == BinOps \cup InOps \cup NullOps

\* a column name is the sequence of its "."-separated parts; the empty
\* sequence stands for null/undefined
NULLCOL == <<>>
ColA == <<"A">>

\* a value argument: absent (null/undefined) or the list of values given
\* (one value for a comparison, the array for IN/NOT IN)
Absent == [absent |-> TRUE, list |-> <<>>]
Given(l) == [absent |-> FALSE, list |-> l]

\* The builder never looks into a value (it tests null-ness and length
\* only), so the n-th value given in a run is the number n.
ValArgs(op, n) ==
    IF op \in BinOps THEN {Absent, Given(<<n + 1>>)}
    ELSE IF op \in InOps THEN {Absent, Given(<<>>), Given(<<n + 1, n + 2>>)}
    ELSE {Absent}

GoodArgs(op, n) ==
    IF op \in BinOps THEN {Given(<<n + 1>>)}
    ELSE IF op \in InOps THEN {Given(<<n + 1, n + 2>>)}
    ELSE {Absent}

----------------------------------------------------------------------------
(* SQL text *)

Kw(k) == [k |-> k, id |-> <<>>, q |-> FALSE, op |-> "", nq |-> 0]
CondTok(id, q, op, nq) == [k |-> "cond", id |-> id, q |-> q, op |-> op, nq |-> nq]

Min(S) == CHOOSE x \in S : \A y \in S : x <= y

\* String.prototype.replace(pattern, "") with a string pattern: removes the
\* first occurrence, or leaves the text alone when there is none
Replace(s, pat) ==
    LET hits == {i \in 1..(Len(s) - Len(pat) + 1) : SubSeq(s, i, i + Len(pat) - 1) = pat}
    IN IF hits = {} THEN s
       ELSE LET i == Min(hits)
            IN SubSeq(s, 1, i - 1) \o SubSeq(s, i + Len(pat), Len(s))

----------------------------------------------------------------------------
(* WhereBuilder *)

NewBuilder == [filter |-> <<>>, args |-> <<>>, not |-> FALSE]

\* `${split(".")[0]}`.`${split(".")[1]}` wrapped in backticks; String(null)
QuoteId(col) ==
    IF col = NULLCOL THEN <<"null">>
    ELSE IF Len(col) > 1 THEN <<col[1], col[2]>>
    ELSE col

\* the early "return this" of a condition method
Guard(c) ==
    IF c.op \in BinOps THEN c.col = NULLCOL \/ c.v.absent
    ELSE IF c.op \in InOps THEN
        IF c.flavor = "or" /\ c.op = "IN" THEN FALSE
        ELSE c.col = NULLCOL \/ c.v.absent \/ Len(c.v.list) <= 0
    ELSE c.col = NULLCOL

\* vals.length of an absent array
Throws(c) == c.op \in InOps /\ c.v.absent

\* a builder that writes AND before every later condition
ConnectorAlwaysAnd(c, b) == IF Len(b.filter) > 0 THEN Kw("AND") ELSE Kw("WHERE")

Connector(c, b) ==
    IF Len(b.filter) > 0
    THEN (IF c.flavor = "or" THEN Kw("OR") ELSE Kw("AND"))
    ELSE Kw("WHERE")

Fragment(c) ==
    CondTok(QuoteId(c.col), TRUE, c.op,
            IF c.op \in NullOps THEN 0 ELSE Len(c.v.list))

\* _negate(cond): the fragment it returns and the flag it leaves
\* a builder whose _negate leaves the flag set
NegateKeepsFlag(b, cond) ==
    IF b.not THEN [cond |-> <<Kw("NOT(")>> \o cond \o <<Kw(")")>>, not |-> b.not]
    ELSE [cond |-> cond, not |-> b.not]

Negate(b, cond) ==
    IF b.not THEN [cond |-> <<Kw("NOT(")>> \o cond \o <<Kw(")")>>, not |-> FALSE]
    ELSE [cond |-> cond, not |-> b.not]

\* [...this._args, val, ...builder._args]
\* a builder that puts the callback's values before the node's own
JoinArgsNestedFirst(args, own, nested) == args \o nested \o own

JoinArgs(args, own, nested) == args \o own \o nested

OwnArgs(c) == IF c.op \in NullOps THEN <<>> ELSE c.v.list

UsesNestedArgs(c) == c.op \notin NullOps

\* builder.equals("_", 0) on a new builder, then builder._args.shift()
SeedCall == [flavor |-> "", op |-> "=", col |-> <<"_">>, v |-> Given(<<0>>), cb |-> FALSE]

SeedPattern == <<Kw("WHERE"), CondTok(<<"_">>, FALSE, "=", 1)>>

Seeded ==
    LET b == NewBuilder
        n == Negate(b, <<Fragment(SeedCall)>>)
        f == b.filter \o <<Connector(SeedCall, b)>> \o n.cond
        a == JoinArgs(b.args, OwnArgs(SeedCall), <<>>)
    IN [filter |-> f, args |-> Tail(a), not |-> n.not]

Nest(frag, nested) == <<Kw("(")>> \o frag \o Replace(nested.filter, SeedPattern) \o <<Kw(")")>>

NestedArgs(f, nested) == IF f.useArgs THEN nested.args ELSE <<>>

Frame(b, kind) ==
    [b |-> b, kind |-> kind, conn |-> Kw(""), frag |-> <<>>, own |-> <<>>,
     useArgs |-> FALSE, gnot |-> FALSE]

NewStack == <<Frame(NewBuilder, "top")>>

Top(st) == st[Len(st)]

SetTop(st, f) == [st EXCEPT ![Len(st)] = f]

\* a condition method called on the builder of the running frame
StepCall(st, c) ==
    LET f == Top(st)
        b == f.b
    IN IF Guard(c) THEN [st |-> st, threw |-> FALSE, appended |-> FALSE]
       ELSE IF Throws(c) THEN [st |-> st, threw |-> TRUE, appended |-> FALSE]
       ELSE LET conn == Connector(c, b)
                n == Negate(b, <<Fragment(c)>>)
                frag == n.cond
                b1 == [b EXCEPT !.not = n.not]
            IN IF c.cb
               THEN [st |-> Append(SetTop(st, [f EXCEPT !.b = b1, !.gnot = FALSE]),
                                   [b |-> Seeded, kind |-> "nest", conn |-> conn,
                                    frag |-> frag, own |-> OwnArgs(c),
                                    useArgs |-> UsesNestedArgs(c), gnot |-> FALSE]),
                     threw |-> FALSE, appended |-> FALSE]
               ELSE [st |-> SetTop(st, [f EXCEPT
                                !.b = [b1 EXCEPT !.filter = b.filter \o <<conn>> \o frag,
                                                 !.args = JoinArgs(b.args, OwnArgs(c), <<>>)],
                                !.gnot = FALSE]),
                     threw |-> FALSE, appended |-> TRUE]

\* the callback of the running frame returns its builder
StepReturn(st) ==
    LET f == Top(st)
        rest == SubSeq(st, 1, Len(st) - 1)
        p == Top(rest)
    IN IF f.kind = "nest"
       THEN SetTop(rest, [p EXCEPT
                !.b = [p.b EXCEPT !.filter = p.b.filter \o <<f.conn>> \o Nest(f.frag, f.b),
                                  !.args = JoinArgs(p.b.args, f.own, NestedArgs(f, f.b))]])
       ELSE SetTop(rest, [p EXCEPT !.b = f.b, !.gnot = f.gnot])

\* not(): the flag; not(cb): the flag, then cb runs on this same builder
StepNot(st, cb) ==
    LET f == Top(st)
        f1 == [f EXCEPT !.b = [f.b EXCEPT !.not = TRUE], !.gnot = TRUE]
    IN IF cb THEN Append(SetTop(st, f1), [Frame(f1.b, "not") EXCEPT !.gnot = TRUE])
       ELSE SetTop(st, f1)

ResetBuilder(b) == [b EXCEPT !.filter = <<>>, !.args = <<>>]

StepReset(st) ==
    LET f == Top(st) IN SetTop(st, [f EXCEPT !.b = ResetBuilder(f.b)])

\* toString() and getArgs() of the top-level builder
toString == stack[1].b.filter
getArgs == stack[1].b.args

----------------------------------------------------------------------------
(* Table contexts and join contexts *)

\* A context is known by a name: a table context by its table, the i-th
\* join context constructed by JoinNames[i].
Tables == {"Artist", "Album", "Track"}
JoinNames == <<"J1", "J2", "J3", "J4">>
JoinIds == {JoinNames[i] : i \in 1..Len(JoinNames)}
Keys == {"ArtistId", "AlbumId"}

\* `_joinKey = null` until a join call sets it
NoKey == "null"
\* a key descriptor without `name`
NoName == "undefined"

IsJoinContext(id) == id \in JoinIds

CtxOf(cs, id) == cs[CHOOSE i \in 1..Len(cs) : JoinNames[i] = id]

\* `_table`: a table's name, or the names of a join context's tables put
\* together with '-join-' (kept as the list of the names)
TableName(cs, id) == IF IsJoinContext(id) THEN CtxOf(cs, id).table ELSE <<id>>

RECURSIVE JoinedName(_, _)
JoinedName(cs, tables) ==
    IF tables = <<>> THEN <<>>
    ELSE TableName(cs, Head(tables)) \o JoinedName(cs, Tail(tables))

KeyData(key, name) == [hasKey |-> TRUE, key |-> key, name |-> name]
NoKeyData(name) == [hasKey |-> FALSE, key |-> NoKey, name |-> name]

\* a constructor that looks for the key of the left descriptor only
MissingKeyLeftOnly(leftData, rightData) == ~leftData.hasKey

MissingKey(leftData, rightData) == ~leftData.hasKey \/ ~rightData.hasKey

SetJoinKeys(jk, leftTable, rightTable, leftData, rightData) ==
    [[jk EXCEPT ![leftTable] = leftData.key] EXCEPT ![rightTable] = rightData.key]

\* a constructor that keeps the left join context as one table of the chain
ChainTablesNoSpread(cs, leftTable, rightTable) == <<leftTable>> \o <<rightTable>>

ChainTables(cs, leftTable, rightTable) ==
    (IF IsJoinContext(leftTable) THEN CtxOf(cs, leftTable).tables ELSE <<leftTable>>)
        \o <<rightTable>>

Qualifier(data, name) == IF data.name # NoName THEN <<data.name>> ELSE name

FromTable(name) ==
    [k |-> "table", kind |-> "", right |-> name,
     lq |-> <<>>, lk |-> "", rq |-> <<>>, rk |-> ""]

EdgeKind(cs, left, joinType) ==
    IF IsJoinContext(left) THEN CtxOf(cs, left).joinType ELSE joinType

JoinOn(cs, jk, left, right, leftData, rightData, joinType) ==
    [k |-> "join", kind |-> EdgeKind(cs, left, joinType),
     right |-> TableName(cs, right),
     lq |-> Qualifier(leftData, TableName(cs, left)), lk |-> jk[left],
     rq |-> Qualifier(rightData, TableName(cs, right)), rk |-> jk[right]]

JoinPart(cs, jk, tables, leftData, rightData, joinType) ==
    <<FromTable(TableName(cs, tables[1]))>> \o
    [i \in 1..(Len(tables) - 1) |->
        JoinOn(cs, jk, tables[i], tables[i + 1], leftData, rightData, joinType)]

Columns(cs, tables) == [i \in 1..Len(tables) |-> TableName(cs, tables[i])]

\* what the chain of the left context was built from, and then this call
History(cs, leftTable, rightTable, leftData, rightData, joinType) ==
    LET h == IF IsJoinContext(leftTable) THEN CtxOf(cs, leftTable).hist
             ELSE [base |-> leftTable, calls |-> <<>>]
    IN [h EXCEPT !.calls = Append(h.calls,
            [right |-> rightTable, leftData |-> leftData, rightData |-> rightData,
             joinType |-> joinType])]

\* new MySqlJoinContext(leftTable, rightTable, leftData, rightData, joinType)
NewJoinContext(cs, jk, leftTable, rightTable, leftData, rightData, joinType) ==
    LET tables == ChainTables(cs, leftTable, rightTable)
    IN [tables |-> tables,
        joinType |-> joinType,
        joinStatement |-> JoinPart(cs, jk, tables, leftData, rightData, joinType),
        columns |-> Columns(cs, tables),
        table |-> JoinedName(cs, tables),
        hist |-> History(cs, leftTable, rightTable, leftData, rightData, joinType)]

Construct(leftTable, rightTable, leftData, rightData, joinType) ==
    IF MissingKey(leftData, rightData)
    THEN /\ jlast' = [threw |-> TRUE]
         /\ UNCHANGED <<joinKey, ctxs>>
    ELSE LET jk == SetJoinKeys(joinKey, leftTable, rightTable, leftData, rightData)
         IN /\ joinKey' = jk
            /\ ctxs' = Append(ctxs,
                   NewJoinContext(ctxs, jk, leftTable, rightTable, leftData, rightData, joinType))
            /\ jlast' = [threw |-> FALSE]

\* the last join call: its method and arguments, and the join keys and
\* join contexts as they were when it was made
JoinCall(method, this, that, leftData, rightData) ==
    [made |-> TRUE, method |-> method, this |-> this, that |-> that,
     leftData |-> leftData, rightData |-> rightData, keys |-> joinKey, pre |-> ctxs]

NoJoinCall ==
    [made |-> FALSE, method |-> "", this |-> "", that |-> "",
     leftData |-> NoKeyData(NoName), rightData |-> NoKeyData(NoName),
     keys |-> [id \in Tables \cup JoinIds |-> NoKey], pre |-> <<>>]

JInit ==
    /\ joinKey = [id \in Tables \cup JoinIds |-> NoKey]
    /\ ctxs = <<>>
    /\ jlast = [threw |-> FALSE]
    /\ jcall = NoJoinCall

\* One chain is built: the first call is made on artistCtx, every later
\* one on the join context the call before it returned.  A call names a
\* table in at most one of its two key descriptors.
NameArgs == {NoName, "Artist"}

Tip == IF ctxs = <<>> THEN {"Artist"} ELSE {JoinNames[Len(ctxs)]}

Join ==
    /\ Len(ctxs) < MaxJoins
    /\ \E this \in Tip, table \in Tables, lk \in Keys, rk \in Keys,
          ln \in NameArgs, rn \in NameArgs :
          /\ ln = NoName \/ rn = NoName
          /\ Construct(this, table, KeyData(lk, ln), KeyData(rk, rn), "INNER")
          /\ jcall' = JoinCall("join", this, table, KeyData(lk, ln), KeyData(rk, rn))
    /\ UNCHANGED notJ

LeftJoin ==
    /\ Len(ctxs) < MaxJoins
    /\ \E this \in Tip, table \in Tables, lk \in Keys, rk \in Keys,
          ln \in NameArgs, rn \in NameArgs :
          /\ ln = NoName \/ rn = NoName
          /\ Construct(this, table, KeyData(lk, ln), KeyData(rk, rn), "LEFT")
          /\ jcall' = JoinCall("leftJoin", this, table, KeyData(lk, ln), KeyData(rk, rn))
    /\ UNCHANGED notJ

\* Chains are built on any context made so far, starting from artistCtx,
\* with any of the three methods; the two descriptors carry different keys
\* and no table name, or one of them has no key.
Contexts == {"Artist"} \cup {JoinNames[i] : i \in 1..Len(ctxs)}

KeyPairs ==
    {<<KeyData(k[1], NoName), KeyData(k[2], NoName)>> :
        k \in {p \in Keys \X Keys : p[1] # p[2]}}
        \cup {<<NoKeyData(NoName), KeyData(rk, NoName)>> : rk \in {"ArtistId"}}
        \cup {<<KeyData(lk, NoName), NoKeyData(NoName)>> : lk \in {"ArtistId"}}

\* the tables joined to the chains: every table but the base of the chain
Joined == Tables \ {"Artist"}

JoinFrom ==
    /\ Len(ctxs) < MaxJoins
    /\ \E this \in Contexts, table \in Joined, d \in KeyPairs :
          /\ Construct(this, table, d[1], d[2], "INNER")
          /\ jcall' = JoinCall("join", this, table, d[1], d[2])
    /\ UNCHANGED notJ

LeftJoinFrom ==
    /\ Len(ctxs) < MaxJoins
    /\ \E this \in Contexts, table \in Joined, d \in KeyPairs :
          /\ Construct(this, table, d[1], d[2], "LEFT")
          /\ jcall' = JoinCall("leftJoin", this, table, d[1], d[2])
    /\ UNCHANGED notJ

RightJoin ==
    /\ Len(ctxs) < MaxJoins
    /\ \E this \in Contexts, table \in Joined, d \in KeyPairs :
          /\ Construct(table, this, d[2], d[1], "RIGHT")
          /\ jcall' = JoinCall("rightJoin", this, table, d[1], d[2])
    /\ UNCHANGED notJ

\* Chains that share their table contexts: beside the MaxJoins calls of a
\* chain there is room for one call made for another chain.
MaxCalls == MaxJoins + 1

SharedKeyPairs ==
    {<<KeyData(k[1], NoName), KeyData(k[2], NoName)>> :
        k \in {p \in Keys \X Keys : p[1] # p[2]}}

\* this.join(table, leftData, rightData) on artistCtx or on any chain
JoinShared ==
    /\ Len(ctxs) < MaxCalls
    /\ \E this \in Contexts, table \in Joined, d \in SharedKeyPairs :
          /\ Construct(this, table, d[1], d[2], "INNER")
          /\ jcall' = JoinCall("join", this, table, d[1], d[2])
    /\ UNCHANGED notJ

\* The chain of a history built with nothing else going on: the join
\* contexts and join keys after the first n calls of the history, made on
\* table contexts that no other call has touched.
RECURSIVE BuiltAlone(_, _)
BuiltAlone(hist, n) ==
    IF n = 0 THEN [cs |-> <<>>, jk |-> [id \in Tables \cup JoinIds |-> NoKey]]
    ELSE LET s == BuiltAlone(hist, n - 1)
             call == hist.calls[n]
             left == IF n = 1 THEN hist.base ELSE JoinNames[n - 1]
             jk == SetJoinKeys(s.jk, left, call.right, call.leftData, call.rightData)
         IN [cs |-> Append(s.cs, NewJoinContext(s.cs, jk, left, call.right, call.leftData,
                                                call.rightData, call.joinType)),
             jk |-> jk]

\* its FROM clause
FromAlone(hist) ==
    LET s == BuiltAlone(hist, Len(hist.calls)) IN s.cs[Len(s.cs)].joinStatement

----------------------------------------------------------------------------
(* OrderBuilder *)

\* One entry of _columns: the quoted column and the suffixes appended to it.
Column(col) == [id |-> QuoteId(col), dirs |-> <<>>]

NewOrderBuilder == [columns |-> <<>>]

\* OrderBuilder.by: appends the key; the object it returns closes over idx
OrderBy(b, col) == [b EXCEPT !.columns = Append(b.columns, Column(col))]

\* a direction call that goes to the key appended last
OrderDirLast(b, idx, dir) ==
    [b EXCEPT !.columns[Len(b.columns)].dirs = Append(b.columns[Len(b.columns)].dirs, dir)]

\* asc / desc of the object returned by by(): this._columns[idx] += " ASC"
OrderDir(b, idx, dir) ==
    [b EXCEPT !.columns[idx].dirs = Append(b.columns[idx].dirs, dir)]

\* what a call returns: the OrderBuilder, or the object made by by() for
\* the key at idx
TheBuilder == [kind |-> "builder", idx |-> 0]
ChainFor(idx) == [kind |-> "chain", idx |-> idx]

\* by() of the object returned by by(): this.by(colName); return this
ChainByReturns(b) == TheBuilder

BuilderByReturns(b) == ChainFor(Len(b.columns))

\* the OrderBuilder has by and toString only
BuilderHas(method) == method \in {"by", "toString"}

OrderToString(b) ==
    IF Len(b.columns) > 0 THEN <<Kw("ORDER BY")>> \o b.columns ELSE <<>>

OrderCols == {ColA, <<"B">>}
Dirs == {"ASC", "DESC"}

NoOrderCall ==
    [method |-> "", on |-> "", after |-> "", fluent |-> FALSE, threw |-> FALSE,
     returned |-> TheBuilder]

OInit ==
    /\ order = NewOrderBuilder
    /\ okeys = <<>>
    /\ olast = NoOrderCall

\* the chain objects the caller holds: by() on the builder returned them
Held == {i \in 1..Len(okeys) : okeys[i].chain}

RECURSIVE TotalDirs(_)
TotalDirs(h) == IF h = <<>> THEN 0 ELSE Len(Head(h).dirs) + TotalDirs(Tail(h))

\* order.by(col)
By ==
    /\ Len(order.columns) < MaxKeys
    /\ \E col \in OrderCols :
          /\ order' = OrderBy(order, col)
          /\ okeys' = Append(okeys, [col |-> col, dirs |-> <<>>, chain |-> TRUE])
          /\ olast' = [method |-> "by", on |-> "builder", after |-> olast.method,
                       fluent |-> olast.returned.kind = "builder", threw |-> FALSE,
                       returned |-> BuilderByReturns(OrderBy(order, col))]
    /\ UNCHANGED notO

\* k.by(col) on a chain object k
ChainBy ==
    /\ Len(order.columns) < MaxKeys
    /\ \E k \in Held, col \in OrderCols :
          /\ order' = OrderBy(order, col)
          /\ okeys' = Append(okeys, [col |-> col, dirs |-> <<>>, chain |-> FALSE])
          /\ olast' = [method |-> "by", on |-> "chain", after |-> olast.method,
                       fluent |-> olast.returned = ChainFor(k), threw |-> FALSE,
                       returned |-> ChainByReturns(OrderBy(order, col))]
    /\ UNCHANGED notO

\* k.asc() / k.desc() on a chain object k
ChainDir ==
    /\ TotalDirs(okeys) < MaxDirs
    /\ \E k \in Held, dir \in Dirs :
          /\ order' = OrderDir(order, k, dir)
          /\ okeys' = [okeys EXCEPT ![k].dirs = Append(okeys[k].dirs, dir)]
          /\ olast' = [method |-> dir, on |-> "chain", after |-> olast.method,
                       fluent |-> olast.returned = ChainFor(k), threw |-> FALSE,
                       returned |-> TheBuilder]
    /\ UNCHANGED notO

\* .asc() / .desc() written after a call that returned the OrderBuilder:
\* the property is undefined and the call throws a TypeError
BuilderDir ==
    /\ olast.returned.kind = "builder"
    /\ ~olast.threw
    /\ \E dir \in Dirs :
          olast' = [method |-> dir, on |-> "builder", after |-> olast.method,
                    fluent |-> TRUE,
                    threw |-> ~BuilderHas(dir), returned |-> TheBuilder]
    /\ UNCHANGED <<order, okeys>>
    /\ UNCHANGED notO

----------------------------------------------------------------------------
(* GroupBuilder *)

NoAlias == "undefined"

GroupMethods == {"by", "byDay", "byWeek", "byMonth", "byYear"}

\* the expression a method groups by, over the quoted column
KeyExpr(method, col) ==
    [fn |-> CASE method = "by"      -> "column"
              [] method = "byDay"   -> "CONCAT(YEAR, '/', DAY)"
              [] method = "byWeek"  -> "YEARWEEK"
              [] method = "byMonth" -> "CONCAT(YEAR, '/', MONTH)"
              [] method = "byYear"  -> "YEAR",
     id |-> QuoteId(col)]

AliasOf(method) ==
    CASE method = "by"      -> NoAlias
      [] method = "byDay"   -> "$yearDay"
      [] method = "byWeek"  -> "$yearWeek"
      [] method = "byMonth" -> "$yearMonth"
      [] method = "byYear"  -> "$year"

NewGroupBuilder == [keys |-> <<>>]

\* by / byDay / byWeek / byMonth / byYear
GroupBy(g, method, col) ==
    [g EXCEPT !.keys = Append(g.keys, [key |-> KeyExpr(method, col), alias |-> AliasOf(method)])]

\* a name that refers to an alias of the projection
AliasRef(alias) == [fn |-> "alias", id |-> <<alias>>]

GroupNameAlwaysKey(k) == [name |-> k.key]

\* how GROUP BY names a key: k.alias != undefined ? k.alias : k.key
GroupName(k) == [name |-> IF k.alias # NoAlias THEN AliasRef(k.alias) ELSE k.key]

GroupToString(g) ==
    IF Len(g.keys) > 0
    THEN <<Kw("GROUP BY")>> \o [i \in 1..Len(g.keys) |-> GroupName(g.keys[i])]
    ELSE <<>>

Star == [expr |-> "*", as |-> NoAlias]
CountStar == [expr |-> "COUNT(*)", as |-> "$count"]

getSelects(g) ==
    IF Len(g.keys) <= 0 THEN <<Star>>
    ELSE <<CountStar>> \o [i \in 1..Len(g.keys) |-> [expr |-> g.keys[i].key, as |-> g.keys[i].alias]]

GroupCols == {<<"Country">>, <<"Employee", "HireDate">>}

GInit ==
    /\ group = NewGroupBuilder
    /\ glog = <<>>

\* group.by(col), group.byDay(col), ...
Group ==
    /\ Len(group.keys) < MaxGroups
    /\ \E method \in GroupMethods, col \in GroupCols :
          /\ group' = GroupBy(group, method, col)
          /\ glog' = Append(glog, [method |-> method, col |-> col])
    /\ UNCHANGED notG

----------------------------------------------------------------------------
(* Operations of a context *)

\* `where = null`, `groupBy = null`, `orderBy = null`, `distinct = null`
NoCallback == [given |-> FALSE, steps |-> <<>>]
Callback(steps) == [given |-> TRUE, steps |-> steps]
NoDistinct == [given |-> FALSE, cols |-> <<>>]
DistinctOn(cols) == [given |-> TRUE, cols |-> cols]

\* where(new WhereBuilder()): the steps of the callback, run on a new builder
RECURSIVE RunSteps(_, _)
RunSteps(st, steps) ==
    IF steps = <<>> THEN [st |-> st, threw |-> FALSE]
    ELSE LET h == Head(steps)
         IN IF h.step = "return" THEN RunSteps(StepReturn(st), Tail(steps))
            ELSE LET r == StepCall(st, h.c)
                 IN IF r.threw THEN [st |-> st, threw |-> TRUE]
                    ELSE RunSteps(r.st, Tail(steps))

RunWhere(where) ==
    IF where.given
    THEN LET r == RunSteps(NewStack, where.steps)
         IN [b |-> r.st[1].b, threw |-> r.threw]
    ELSE [b |-> NewBuilder, threw |-> FALSE]

\* groupBy(new GroupBuilder())
RECURSIVE RunGroupSteps(_, _)
RunGroupSteps(g, steps) ==
    IF steps = <<>> THEN g
    ELSE RunGroupSteps(GroupBy(g, Head(steps).method, Head(steps).col), Tail(steps))

RunGroup(groupBy) ==
    IF groupBy.given THEN RunGroupSteps(NewGroupBuilder, groupBy.steps) ELSE NewGroupBuilder

\* orderBy(new OrderBuilder()): each step is called on what the step before
\* it returned
RECURSIVE RunOrderSteps(_, _, _)
RunOrderSteps(b, on, steps) ==
    IF steps = <<>> THEN [b |-> b, threw |-> FALSE]
    ELSE LET h == Head(steps)
         IN IF h.method = "by"
            THEN RunOrderSteps(OrderBy(b, h.col),
                               IF on.kind = "builder" THEN BuilderByReturns(OrderBy(b, h.col))
                               ELSE ChainByReturns(OrderBy(b, h.col)),
                               Tail(steps))
            ELSE IF on.kind = "chain"
                 THEN RunOrderSteps(OrderDir(b, on.idx, h.method), TheBuilder, Tail(steps))
                 ELSE [b |-> b, threw |-> ~BuilderHas(h.method)]

RunOrder(orderBy) ==
    IF orderBy.given THEN RunOrderSteps(NewOrderBuilder, TheBuilder, orderBy.steps)
    ELSE [b |-> NewOrderBuilder, threw |-> FALSE]

\* the constructor's options, over the defaults
DefaultOptions == [allowTruncation |-> FALSE, allowUpdateOnAll |-> FALSE]
Options == [allowTruncation : BOOLEAN, allowUpdateOnAll : BOOLEAN]

\* new MySqlTableContext(pool, table, autoIncrementKey, options)
TableContext(table, incKey, options) ==
    [kind |-> "table", table |-> <<table>>, incKey |-> incKey, options |-> options,
     of |-> options, joinStatement |-> <<>>, columns |-> <<>>]

\* left.join(right, ...): super(pool, "") leaves the join context with no
\* increment key and the default options; `of` keeps the options of left
JoinContextOf(left, right) ==
    LET j == NewJoinContext(<<>>, [t \in Tables |-> "ArtistId"], left.table[1], right,
                            KeyData("ArtistId", NoName), KeyData("ArtistId", NoName), "INNER")
    IN [kind |-> "join", table |-> j.table, incKey |-> NoKey, options |-> DefaultOptions,
        of |-> left.options, joinStatement |-> j.joinStatement, columns |-> j.columns]

\* one part of the command text; an empty part leaves nothing
Clause(k, text) == IF text = <<>> THEN <<>> ELSE <<[k |-> k, text |-> text]>>

\* `LIMIT n` / `OFFSET n`, written when n > 0
Paging(k, n) == IF n > 0 THEN <<[k |-> k, text |-> <<n>>]>> ELSE <<>>

NoArgs == [record |-> <<>>, where |-> <<>>]

\* a command handed to _query, _insert, _update or _delete
Statement(via, verb, select, from, sets, tail, args) ==
    [via |-> via, verb |-> verb, select |-> select, from |-> from, sets |-> sets,
     tail |-> tail, args |-> args]

Resolved(stmts) == [rejected |-> FALSE, sent |-> stmts]
Rejected == [rejected |-> TRUE, sent |-> <<>>]

\* the table as FROM names it: get writes the name bare, the others quote it
TableRef(ctx, quoted) == [k |-> "table", quoted |-> quoted, name |-> ctx.table]

\* the arguments of an operation; the ones a method does not take keep
\* their defaults
OpArgs(where, groupBy, orderBy, distinct, limit, offset, record, records) ==
    [where |-> where, groupBy |-> groupBy, orderBy |-> orderBy, distinct |-> distinct,
     limit |-> limit, offset |-> offset, record |-> record, records |-> records]

CountSelect(distinct) ==
    IF distinct.given THEN [distinct |-> TRUE, cols |-> distinct.cols, count |-> TRUE, as |-> "count"]
    ELSE [distinct |-> FALSE, cols |-> <<Star>>, count |-> TRUE, as |-> "$count"]

\* distinct != null ? `DISTINCT ${distinct.join(',')}` : _groupBy.getSelects()
TableSelect(ctx, distinct, g) ==
    IF distinct.given THEN [distinct |-> TRUE, cols |-> distinct.cols, count |-> FALSE, as |-> NoAlias]
    ELSE [distinct |-> FALSE, cols |-> getSelects(g), count |-> FALSE, as |-> NoAlias]

\* ... : getSelects() == "*" ? this.columns.join(',') : getSelects()
JoinSelect(ctx, distinct, g) ==
    IF distinct.given THEN [distinct |-> TRUE, cols |-> distinct.cols, count |-> FALSE, as |-> NoAlias]
    ELSE IF getSelects(g) = <<Star>>
         THEN [distinct |-> FALSE, cols |-> ctx.columns, count |-> FALSE, as |-> NoAlias]
         ELSE [distinct |-> FALSE, cols |-> getSelects(g), count |-> FALSE, as |-> NoAlias]

\* keys of the record that are written: the increment key is left out
SetKeys(ctx, record) ==
    SelectSeq(record, LAMBDA k : ctx.incKey = NoKey \/ k # ctx.incKey)

\* updateAll keeps a key when there is an increment key and it is another
SetKeysAll(ctx, record) ==
    SelectSeq(record, LAMBDA k : ctx.incKey # NoKey /\ k # ctx.incKey)

\* a guard that looks at the callback only
NoWhereGiven(where, w) == ~where.given

\* where == null || _where.getArgs().length <= 0
NoWhereBuilt(where, w) == ~where.given \/ Len(w.args) <= 0

RECURSIVE AllKeys(_)
AllKeys(records) ==
    IF records = <<>> THEN <<>>
    ELSE LET rest == AllKeys(Tail(records))
         IN SelectSeq(Head(records), LAMBDA k : \A i \in 1..Len(rest) : rest[i] # k) \o rest

\* the operations of MySqlTableContext
TableOp(ctx, method, a) ==
    LET w == RunWhere(a.where)
        g == RunGroup(a.groupBy)
        o == RunOrder(a.orderBy)
        from == <<TableRef(ctx, method # "get")>>
    IN CASE method = "count" ->
              IF w.threw THEN Rejected
              ELSE Resolved(<<Statement("_query", "SELECT", CountSelect(a.distinct), from, <<>>,
                                        Clause("WHERE", w.b.filter),
                                        [record |-> <<>>, where |-> w.b.args])>>)
         [] method = "get" ->
              IF w.threw \/ o.threw THEN Rejected
              ELSE Resolved(<<Statement("_query", "SELECT", TableSelect(ctx, a.distinct, g), from, <<>>,
                                        Clause("WHERE", w.b.filter)
                                            \o Clause("GROUP BY", GroupToString(g))
                                            \o Clause("ORDER BY", OrderToString(o.b))
                                            \o Paging("LIMIT", a.limit)
                                            \o Paging("OFFSET", a.offset),
                                        [record |-> <<>>, where |-> w.b.args])>>)
         [] method = "getAll" ->
              IF w.threw \/ o.threw THEN Rejected
              ELSE Resolved(<<Statement("_query", "SELECT", TableSelect(ctx, a.distinct, g), from, <<>>,
                                        Clause("WHERE", w.b.filter)
                                            \o Clause("GROUP BY", GroupToString(g))
                                            \o Clause("ORDER BY", OrderToString(o.b)),
                                        [record |-> <<>>, where |-> w.b.args])>>)
         [] method \in {"insertOne", "insertMany"} ->
              LET records == IF method = "insertOne" THEN <<a.record>> ELSE a.records
                  cols == SetKeys(ctx, AllKeys(records))
              IN IF Len(records) <= 0 THEN Resolved(<<>>)
                 ELSE Resolved(<<Statement("_insert", "INSERT", <<>>, from, cols, <<>>,
                                           [record |-> cols, where |-> <<>>])>>)
         [] method = "update" ->
              IF w.threw THEN Rejected
              ELSE IF Len(a.record) <= 0 THEN Rejected
              ELSE IF NoWhereBuilt(a.where, w.b) THEN Rejected
              ELSE Resolved(<<Statement("_update", "UPDATE", <<>>, from, SetKeys(ctx, a.record),
                                        Clause("WHERE", w.b.filter),
                                        [record |-> SetKeys(ctx, a.record), where |-> w.b.args])>>)
         [] method = "updateAll" ->
              IF Len(a.record) <= 0 THEN Rejected
              ELSE IF ~ctx.options.allowUpdateOnAll THEN Rejected
              ELSE Resolved(<<Statement("_update", "UPDATE", <<>>, from, SetKeysAll(ctx, a.record),
                                        <<>>,
                                        [record |-> SetKeysAll(ctx, a.record), where |-> <<>>])>>)
         [] method = "delete" ->
              IF w.threw THEN Rejected
              ELSE IF NoWhereBuilt(a.where, w.b) THEN Rejected
              ELSE Resolved(<<Statement("_delete", "DELETE", <<>>, from, <<>>,
                                        Clause("WHERE", w.b.filter),
                                        [record |-> <<>>, where |-> w.b.args])>>)
         [] method = "truncate" ->
              IF ~ctx.options.allowTruncation THEN Rejected
              ELSE Resolved(<<Statement("_delete", "TRUNCATE", <<>>, from, <<>>, <<>>, NoArgs)>>)

Mutations == {"insertOne", "insertMany", "update", "updateAll", "delete", "truncate"}
Queries == {"count", "get", "getAll"}

\* a join context that inherits the mutations of the table context
JoinMutationInherited(ctx, method, a) == TableOp(ctx, method, a)

\* insertOne .. truncate of MySqlJoinContext: throw Error('Cannot ... on joined tables.')
JoinMutation(ctx, method, a) == Rejected

\* the operations of MySqlJoinContext
JoinOp(ctx, method, a) ==
    LET w == RunWhere(a.where)
        g == RunGroup(a.groupBy)
        o == RunOrder(a.orderBy)
    IN CASE method = "count" ->
              IF w.threw THEN Rejected
              ELSE Resolved(<<Statement("_query", "SELECT", CountSelect(a.distinct),
                                        ctx.joinStatement, <<>>,
                                        Clause("WHERE", w.b.filter),
                                        [record |-> <<>>, where |-> w.b.args])>>)
         [] method = "get" ->
              IF w.threw \/ o.threw THEN Rejected
              ELSE Resolved(<<Statement("_query", "SELECT", JoinSelect(ctx, a.distinct, g),
                                        ctx.joinStatement, <<>>,
                                        Clause("WHERE", w.b.filter)
                                            \o Clause("ORDER BY", OrderToString(o.b))
                                            \o Clause("GROUP BY", GroupToString(g))
                                            \o Paging("LIMIT", a.limit)
                                            \o Paging("OFFSET", a.offset),
                                        [record |-> <<>>, where |-> w.b.args])>>)
         [] method = "getAll" ->
              IF w.threw \/ o.threw THEN Rejected
              ELSE Resolved(<<Statement("_query", "SELECT", JoinSelect(ctx, a.distinct, g),
                                        ctx.joinStatement, <<>>,
                                        Clause("WHERE", w.b.filter)
                                            \o Clause("GROUP BY", GroupToString(g))
                                            \o Clause("ORDER BY", OrderToString(o.b)),
                                        [record |-> <<>>, where |-> w.b.args])>>)
         [] method \in Mutations -> JoinMutation(ctx, method, a)

Operation(ctx, method, a) ==
    IF ctx.kind = "join" THEN JoinOp(ctx, method, a) ELSE TableOp(ctx, method, a)

\* inputs of the operations
Cond(flavor, opr, col, v) ==
    [step |-> "call", c |-> [flavor |-> flavor, op |-> opr, col |-> col, v |-> v, cb |-> FALSE]]

WhereArgs ==
    {NoCallback,
     Callback(<<>>),
     Callback(<<Cond("", "=", ColA, Absent)>>),
     Callback(<<Cond("", "=", ColA, Given(<<1>>))>>),
     Callback(<<Cond("", "=", ColA, Given(<<1>>)), Cond("or", "<>", ColA, Given(<<2>>))>>),
     Callback(<<Cond("", "= NULL", ColA, Absent)>>),
     Callback(<<Cond("or", "IN", ColA, Given(<<>>))>>),
     Callback(<<Cond("or", "IN", ColA, Absent)>>)}

QueryWhereArgs ==
    {NoCallback, Callback(<<Cond("", "=", ColA, Given(<<1>>))>>)}

GroupArgs ==
    {NoCallback,
     Callback(<<>>),
     Callback(<<[method |-> "by", col |-> <<"Country">>]>>),
     Callback(<<[method |-> "by", col |-> <<"Country">>],
                [method |-> "byYear", col |-> <<"HireDate">>]>>)}

OrderArgs ==
    {NoCallback,
     Callback(<<[method |-> "by", col |-> ColA], [method |-> "DESC", col |-> <<>>]>>),
     Callback(<<[method |-> "by", col |-> ColA], [method |-> "by", col |-> <<"B">>],
                [method |-> "DESC", col |-> <<>>]>>)}

DistinctArgs == {NoDistinct, DistinctOn(<<"Name">>)}

Records == {<<>>, <<"Name">>, <<"ArtistId", "Name">>}

TableContexts ==
    {TableContext("Artist", k, o) : k \in {NoKey, "ArtistId"}, o \in Options}

JoinContexts == {JoinContextOf(t, "Album") : t \in TableContexts}

QueryContexts ==
    {TableContext("Artist", "ArtistId", DefaultOptions),
     JoinContextOf(TableContext("Artist", "ArtistId", DefaultOptions), "Album")}

NoOpArgs == OpArgs(NoCallback, NoCallback, NoCallback, NoDistinct, 0, 0, <<>>, <<>>)

\* the last call: the context, the method, its arguments, and whether the
\* promise it returned was rejected
OpCall(made, method, ctx, a, rejected) ==
    [made |-> made, method |-> method, ctx |-> ctx, rejected |-> rejected,
     where |-> a.where, groupBy |-> a.groupBy, orderBy |-> a.orderBy,
     distinct |-> a.distinct, limit |-> a.limit, offset |-> a.offset,
     record |-> a.record, records |-> a.records]

NoOp == OpCall(FALSE, "", TableContext("Artist", NoKey, DefaultOptions), NoOpArgs, FALSE)

CInit ==
    /\ oper = NoOp
    /\ sent = <<>>

\* ctx.method(...): the call, and what it hands to the execution layer
Call(ctx, method, a) ==
    LET out == Operation(ctx, method, a)
    IN /\ oper' = OpCall(TRUE, method, ctx, a, out.rejected)
       /\ sent' = out.sent
       /\ UNCHANGED notC

Count ==
    \E ctx \in QueryContexts, where \in QueryWhereArgs, distinct \in DistinctArgs :
        \E a \in {[NoOpArgs EXCEPT !.where = where, !.distinct = distinct]} : Call(ctx, "count", a)

Get ==
    \E ctx \in QueryContexts, where \in QueryWhereArgs, groupBy \in GroupArgs,
       orderBy \in OrderArgs, distinct \in DistinctArgs, page \in {<<0, 0>>, <<5, 2>>} :
        \E a \in {OpArgs(where, groupBy, orderBy, distinct, page[1], page[2], <<>>, <<>>)} : Call(ctx, "get", a)

GetAll ==
    \E ctx \in QueryContexts, where \in QueryWhereArgs, groupBy \in GroupArgs,
       orderBy \in OrderArgs, distinct \in DistinctArgs :
        \E a \in {OpArgs(where, groupBy, orderBy, distinct, 0, 0, <<>>, <<>>)} : Call(ctx, "getAll", a)

InsertOne ==
    \E ctx \in TableContexts \cup JoinContexts, record \in Records :
        \E a \in {[NoOpArgs EXCEPT !.record = record]} : Call(ctx, "insertOne", a)

InsertMany ==
    \E ctx \in TableContexts \cup JoinContexts,
       records \in {<<>>, <<<<"Name">>>>, <<<<"ArtistId", "Name">>, <<"Name">>>>} :
        \E a \in {[NoOpArgs EXCEPT !.records = records]} : Call(ctx, "insertMany", a)

Update ==
    \E ctx \in TableContexts \cup JoinContexts, record \in Records, where \in WhereArgs :
        \E a \in {[NoOpArgs EXCEPT !.record = record, !.where = where]} : Call(ctx, "update", a)

UpdateAll ==
    \E ctx \in TableContexts \cup JoinContexts, record \in Records :
        \E a \in {[NoOpArgs EXCEPT !.record = record]} : Call(ctx, "updateAll", a)

Delete ==
    \E ctx \in TableContexts \cup JoinContexts, where \in WhereArgs :
        \E a \in {[NoOpArgs EXCEPT !.where = where]} : Call(ctx, "delete", a)

Truncate ==
    \E ctx \in TableContexts \cup JoinContexts :
        \E a \in {NoOpArgs} : Call(ctx, "truncate", a)

----------------------------------------------------------------------------
(* The execution layer: _query, _insert, _update and _delete, the events    *)
(* they emit on the pool and the handlers registered for them.  A call of   *)
(* a context runs up to its first await in one step; it goes on when the    *)
(* connection promise is settled and again when the pool has answered.      *)

MaxFlight == 2
MaxHandlers == 1

\* the events, each emitted under the name `${EVENT}-${this._table}`
EVENT_TABLE_CONTEXT_QUERY == "table-context-query"
EVENT_TABLE_CONTEXT_QUERY_FAILED == "table-context-query-failed"
EVENT_TABLE_CONTEXT_INSERT == "table-context-insert"
EVENT_TABLE_CONTEXT_INSERT_FAILED == "table-context-insert-failed"
EVENT_TABLE_CONTEXT_UPDATE == "table-context-update"
EVENT_TABLE_CONTEXT_UPDATE_FAILED == "table-context-update-failed"
EVENT_TABLE_CONTEXT_DELETE == "table-context-delete"
EVENT_TABLE_CONTEXT_DELETE_FAILED == "table-context-delete-failed"

Layers == {"_query", "_insert", "_update", "_delete"}

\* cmd.startsWith(...)
Prefix(via) ==
    CASE via = "_query" -> "SELECT" [] via = "_insert" -> "INSERT"
      [] via = "_update" -> "UPDATE" [] via = "_delete" -> "DELETE"

Recognized(via, stmt) == stmt.verb = Prefix(via)

\* the event emitted in the try block
SuccessEvent(via) ==
    CASE via = "_query" -> EVENT_TABLE_CONTEXT_QUERY
      [] via = "_insert" -> EVENT_TABLE_CONTEXT_INSERT
      [] via = "_update" -> EVENT_TABLE_CONTEXT_UPDATE
      [] via = "_delete" -> EVENT_TABLE_CONTEXT_DELETE

\* the event emitted in the catch block
FailEvent(via) ==
    CASE via = "_query" -> EVENT_TABLE_CONTEXT_QUERY_FAILED
      [] via = "_insert" -> EVENT_TABLE_CONTEXT_INSERT_FAILED
      [] via = "_update" -> EVENT_TABLE_CONTEXT_UPDATE_FAILED
      [] via = "_delete" -> EVENT_TABLE_CONTEXT_DELETE_FAILED

SuccessEvents == {SuccessEvent(via) : via \in Layers}
FailEvents == {FailEvent(via) : via \in Layers}

\* the methods that register a handler, and the events each adds it to
ListenerEvents(method) ==
    CASE method = "onSuccess" -> SuccessEvents
      [] method = "onFail" -> FailEvents
      [] method = "onQuerySuccess" -> {EVENT_TABLE_CONTEXT_QUERY}
      [] method = "onInsertSuccess" -> {EVENT_TABLE_CONTEXT_INSERT}
      [] method = "onUpdateSuccess" -> {EVENT_TABLE_CONTEXT_UPDATE}
      [] method = "onDeleteSuccess" -> {EVENT_TABLE_CONTEXT_DELETE}
      [] method = "onQueryFail" -> {EVENT_TABLE_CONTEXT_QUERY}
      [] method = "onInsertFail" -> {EVENT_TABLE_CONTEXT_INSERT}
      [] method = "onUpdateFail" -> {EVENT_TABLE_CONTEXT_UPDATE}
      [] method = "onDeleteFail" -> {EVENT_TABLE_CONTEXT_DELETE}

ListenerMethods ==
    {"onSuccess", "onFail", "onQuerySuccess", "onInsertSuccess", "onUpdateSuccess",
     "onDeleteSuccess", "onQueryFail", "onInsertFail", "onUpdateFail", "onDeleteFail"}

\* pool.emit(event, ...) during call i: the handlers added to the event are
\* called; a handler is known by the method that registered it
Emit(em, ls, i, event) ==
    Append(em, [call |-> i, event |-> event,
                called |-> {m \in ls : event \in ListenerEvents(m)}])

\* a call that was rejected, or resolved, before it handed a command on
NoStatement == Statement("", "", <<>>, <<>>, <<>>, <<>>, NoArgs)

\* One call of the context: its arguments, the command it compiled, the
\* layer the command was handed to and where the call stands:
\* "connecting" (await this._cnnPromise), "executing" (await of the pool),
\* "resolved" or "rejected".
FlightCall(method, a, out) ==
    [method |-> method,
     where |-> a.where, groupBy |-> a.groupBy, orderBy |-> a.orderBy,
     distinct |-> a.distinct, limit |-> a.limit, offset |-> a.offset,
     record |-> a.record, records |-> a.records,
     via |-> IF out.rejected \/ out.sent = <<>> THEN "" ELSE out.sent[1].via,
     stmt |-> IF out.rejected \/ out.sent = <<>> THEN NoStatement ELSE out.sent[1],
     pc |-> IF out.rejected THEN "rejected"
            ELSE IF out.sent = <<>> THEN "resolved" ELSE "connecting",
     error |-> IF out.rejected THEN "Error" ELSE ""]

ArgsOf(c) ==
    OpArgs(c.where, c.groupBy, c.orderBy, c.distinct, c.limit, c.offset, c.record, c.records)

\* a layer that keeps the command of the latest call in one place
PairOfLatest(fl, i) == fl[Len(fl)].stmt

\* cmd and args are parameters of the call of the layer: each call has its own
PairOf(fl, i) == fl[i].stmt

EInit ==
    /\ context = TableContext("Artist", "ArtistId", DefaultOptions)
    /\ listeners = {}
    /\ cnn = "pending"
    /\ flight = <<>>
    /\ pooled = <<>>
    /\ emitted = <<>>

EventContexts ==
    {TableContext("Artist", "ArtistId", DefaultOptions),
     TableContext("Artist", "ArtistId", [DefaultOptions EXCEPT !.allowTruncation = TRUE]),
     JoinContextOf(TableContext("Artist", "ArtistId", DefaultOptions), "Album")}

\* new MySqlTableContext(pool, table, key, options), or a join of two
Create ==
    /\ flight = <<>> /\ cnn = "pending" /\ listeners = {}
    /\ \E ctx \in EventContexts :
          /\ context # ctx
          /\ context' = ctx
    /\ UNCHANGED <<listeners, cnn, flight, pooled, emitted>>
    /\ UNCHANGED notE

\* context.onSuccess(handler) .. context.onDeleteFail(handler)
Register ==
    /\ flight = <<>>
    /\ Cardinality(listeners) < MaxHandlers
    /\ \E m \in ListenerMethods \ listeners : listeners' = listeners \cup {m}
    /\ UNCHANGED <<context, cnn, flight, pooled, emitted>>
    /\ UNCHANGED notE

\* the promise of pool.getConnection() settles; when it is fulfilled the
\* constructor's then() sets this._cnn
Connect ==
    /\ cnn = "pending"
    /\ \E ok \in BOOLEAN : cnn' = IF ok THEN "ok" ELSE "failed"
    /\ UNCHANGED <<context, listeners, flight, pooled, emitted>>
    /\ UNCHANGED notE

\* context.method(...): the callbacks run and the command is compiled and
\* handed to its layer, which stops at `await this._cnnPromise`
Begin(method, a) ==
    /\ flight' = Append(flight, FlightCall(method, a, Operation(context, method, a)))
    /\ UNCHANGED <<context, listeners, cnn, pooled, emitted>>
    /\ UNCHANGED notE

CommandArgs ==
    [count |-> [NoOpArgs EXCEPT !.where = Callback(<<Cond("", "=", ColA, Given(<<1>>))>>)],
     get |-> [NoOpArgs EXCEPT !.limit = 5],
     insertOne |-> [NoOpArgs EXCEPT !.record = <<"Name">>],
     insertMany |-> [NoOpArgs EXCEPT !.records = <<<<"Name">>>>],
     update |-> [NoOpArgs EXCEPT !.record = <<"Name">>,
                                 !.where = Callback(<<Cond("", "=", ColA, Given(<<1>>))>>)],
     delete |-> [NoOpArgs EXCEPT !.where = Callback(<<Cond("", "=", ColA, Given(<<1>>))>>)],
     truncate |-> NoOpArgs]

\* one command is run on the context
BeginCommand ==
    /\ flight = <<>>
    /\ \E method \in DOMAIN CommandArgs : Begin(method, CommandArgs[method])

QueryCalls ==
    {[method |-> "count", a |-> NoOpArgs],
     [method |-> "count", a |-> [NoOpArgs EXCEPT !.distinct = DistinctOn(<<"Name">>)]],
     [method |-> "get",
      a |-> [NoOpArgs EXCEPT !.where = Callback(<<Cond("", "=", ColA, Given(<<1>>))>>),
                             !.limit = 5]],
     [method |-> "getAll",
      a |-> [NoOpArgs EXCEPT
                !.where = Callback(<<Cond("", "=", ColA, Given(<<2>>))>>),
                !.groupBy = Callback(<<[method |-> "by", col |-> <<"Country">>]>>),
                !.orderBy = Callback(<<[method |-> "by", col |-> ColA],
                                       [method |-> "DESC", col |-> <<>>]>>)]]}

\* a query is started while others are in flight
BeginQuery ==
    /\ Len(flight) < MaxFlight
    /\ \E c \in QueryCalls : Begin(c.method, c.a)

\* call i goes on after `await this._cnnPromise`.  When the promise was
\* rejected, the catch block reads this._cnn.config of the null _cnn while
\* it builds the event, so the call is rejected with a TypeError and no
\* event is emitted.  A command with the wrong prefix throws into the catch
\* block.  Otherwise the command goes to the pool; _query emits its event
\* before that.
Proceed ==
    /\ cnn # "pending"
    /\ \E i \in 1..Len(flight) :
          /\ flight[i].pc = "connecting"
          /\ IF cnn = "failed"
             THEN /\ flight' = [flight EXCEPT ![i].pc = "rejected", ![i].error = "TypeError"]
                  /\ UNCHANGED <<pooled, emitted>>
             ELSE IF ~Recognized(flight[i].via, flight[i].stmt)
             THEN /\ flight' = [flight EXCEPT ![i].pc = "rejected", ![i].error = "Error"]
                  /\ emitted' = Emit(emitted, listeners, i, FailEvent(flight[i].via))
                  /\ UNCHANGED pooled
             ELSE /\ flight' = [flight EXCEPT ![i].pc = "executing"]
                  /\ pooled' = Append(pooled, [call |-> i, via |-> flight[i].via,
                                               stmt |-> PairOf(flight, i)])
                  /\ emitted' = IF flight[i].via = "_query"
                                THEN Emit(emitted, listeners, i, SuccessEvent(flight[i].via))
                                ELSE emitted
    /\ UNCHANGED <<context, listeners, cnn>>
    /\ UNCHANGED notE

\* the pool answers call i: pool.query / pool.execute resolves or rejects
Finish ==
    \E i \in 1..Len(flight), ok \in BOOLEAN :
        /\ flight[i].pc = "executing"
        /\ IF ok
           THEN /\ flight' = [flight EXCEPT ![i].pc = "resolved"]
                /\ emitted' = IF flight[i].via = "_query" THEN emitted
                              ELSE Emit(emitted, listeners, i, SuccessEvent(flight[i].via))
           ELSE /\ flight' = [flight EXCEPT ![i].pc = "rejected", ![i].error = "Error"]
                /\ emitted' = Emit(emitted, listeners, i, FailEvent(flight[i].via))
        /\ UNCHANGED <<context, listeners, cnn, pooled>>
        /\ UNCHANGED notE

----------------------------------------------------------------------------
(* History kept beside the builder: the condition calls that went past     *)
(* their guard since the last reset, in call order (log), the number of    *)
(* values they were given (nvals), and the outcome of the last call.       *)

\* nesting level of the builder of the running frame
Level(st) == Cardinality({i \in 1..Len(st) : st[i].kind = "nest"})

InNotCb(st) == \E i \in 1..Len(st) : st[i].kind = "not"

\* the column or a required value is absent (IN: absent or empty list)
AbsentInput(c) ==
    \/ c.col = NULLCOL
    \/ c.op \notin NullOps /\ c.v.absent
    \/ c.op \in InOps /\ c.v.list = <<>>

Entry(st, c) ==
    [flavor |-> c.flavor, op |-> c.op, id |-> QuoteId(c.col), cb |-> c.cb,
     level |-> Level(st), expNeg |-> Top(st).gnot, inNot |-> InNotCb(st),
     lo |-> nvals + 1, hi |-> nvals + Len(OwnArgs(c))]

\* outcome of the last step when it was a condition call: was an input
\* absent, did the call throw, did it change the builder
\* and the negation flag it left on the builder it was called on
NoCall == [cond |-> FALSE, absent |-> FALSE, threw |-> FALSE, changed |-> FALSE, flag |-> FALSE]

DoCall(c) ==
    LET r == StepCall(stack, c)
        effective == ~Guard(c) /\ ~Throws(c)
    IN /\ stack' = r.st
       /\ fresh' = StepCall(fresh, c).st
       /\ log' = IF effective THEN Append(log, Entry(stack, c)) ELSE log
       /\ nvals' = IF effective THEN nvals + Len(OwnArgs(c)) ELSE nvals
       /\ last' = [cond |-> TRUE, absent |-> AbsentInput(c), threw |-> r.threw,
                   changed |-> r.st # stack, flag |-> r.st[Len(stack)].b.not]
       /\ UNCHANGED notW

\* any of the 30 condition methods, without a callback, with at most one
\* of the column and the value absent
FlatCall ==
    /\ Len(log) < MaxFlat
    /\ \E flavor \in Flavors, op \in Ops, col \in {ColA, NULLCOL} :
         \E v \in ValArgs(op, nvals) :
            /\ col = NULLCOL => v \in GoodArgs(op, nvals)
            /\ DoCall([flavor |-> flavor, op |-> op, col |-> col, v |-> v, cb |-> FALSE])

\* the methods the negation driver calls: equals, andEquals, orEquals and
\* orIsNull
NotMethods == {<<"", "=">>, <<"and", "=">>, <<"or", "=">>, <<"or", "= NULL">>}

\* the nesting driver calls the three flavors of equals, in and isNull
NestOps == {"=", "IN", "= NULL"}

\* a condition method with a present column and value, with or without a
\* callback; a callback starts running
NestCall ==
    /\ Len(log) < MaxNodes
    /\ \E flavor \in Flavors, op \in NestOps, cb \in BOOLEAN :
         \E v \in GoodArgs(op, nvals) :
            DoCall([flavor |-> flavor, op |-> op, col |-> ColA, v |-> v, cb |-> cb])

\* the same in the negation driver, where only equals takes a callback
NotCall ==
    /\ Len(log) < MaxNodes
    /\ \E m \in NotMethods, cb \in BOOLEAN :
         \E v \in GoodArgs(m[2], nvals) :
            /\ cb => m = <<"", "=">>
            /\ DoCall([flavor |-> m[1], op |-> m[2], col |-> ColA, v |-> v, cb |-> cb])

\* the running callback returns
\* the same methods, without a callback, on a builder that is reset and
\* used again
ReuseCall ==
    /\ Len(log) < MaxFlat
    /\ \E m \in NotMethods : \E v \in GoodArgs(m[2], nvals) :
            DoCall([flavor |-> m[1], op |-> m[2], col |-> ColA, v |-> v, cb |-> FALSE])

Return ==
    /\ Len(stack) > 1
    /\ stack' = StepReturn(stack)
    /\ fresh' = StepReturn(fresh)
    /\ last' = NoCall
    /\ UNCHANGED <<log, nvals>>
    /\ UNCHANGED notW

Not ==
    /\ ~Top(stack).b.not
    /\ stack' = StepNot(stack, FALSE)
    /\ fresh' = StepNot(fresh, FALSE)
    /\ last' = NoCall
    /\ UNCHANGED <<log, nvals>>
    /\ UNCHANGED notW

NotCb ==
    /\ Len(stack) <= MaxNodes
    /\ ~InNotCb(stack)
    /\ stack' = StepNot(stack, TRUE)
    /\ fresh' = StepNot(fresh, TRUE)
    /\ last' = NoCall
    /\ UNCHANGED <<log, nvals>>
    /\ UNCHANGED notW

\* reset() of the top-level builder, between calls; the reference builder
\* is constructed anew
Reset ==
    /\ Len(stack) = 1
    /\ stack' = StepReset(stack)
    /\ fresh' = NewStack
    /\ log' = <<>>
    /\ nvals' = 0
    /\ last' = NoCall
    /\ UNCHANGED notW

WInit ==
    /\ stack = NewStack
    /\ fresh = NewStack
    /\ log = <<>>
    /\ nvals = 0
    /\ last = NoCall

Init == WInit /\ JInit /\ OInit /\ GInit /\ CInit /\ EInit

FlatNext == FlatCall \/ Not

SpecFlat == Init /\ [][FlatNext]_vars

NestNext == NestCall \/ Return

SpecNest == Init /\ [][NestNext]_vars

NotNext == NotCall \/ Return \/ Not \/ NotCb

SpecNot == Init /\ [][NotNext]_vars

ResetNext == ReuseCall \/ Not \/ Reset

SpecReset == Init /\ [][ResetNext]_vars

JoinNext == Join \/ LeftJoin

SpecJoin == Init /\ [][JoinNext]_vars

OrderNext == By \/ ChainBy \/ ChainDir \/ BuilderDir

SpecOrder == Init /\ [][OrderNext]_vars

QueryNext == Count \/ Get \/ GetAll

SpecQuery == Init /\ [][QueryNext]_vars

MutateNext == InsertOne \/ InsertMany \/ Update \/ UpdateAll \/ Delete \/ Truncate

SpecMutate == Init /\ [][MutateNext]_vars

OpsNext == QueryNext \/ MutateNext

SpecOps == Init /\ [][OpsNext]_vars

GroupNext == Group

SpecGroup == Init /\ [][GroupNext]_vars

EventsNext == Create \/ Register \/ Connect \/ BeginCommand \/ Proceed \/ Finish

SpecEvents == Init /\ [][EventsNext]_vars

FlightNext == Create \/ Connect \/ BeginQuery \/ Proceed \/ Finish

SpecFlight == Init /\ [][FlightNext]_vars

SharedNext == JoinShared

SpecShared == Init /\ [][SharedNext]_vars

ChainsNext == JoinFrom \/ LeftJoinFrom \/ RightJoin

SpecChains == Init /\ [][ChainsNext]_vars

----------------------------------------------------------------------------
(* Reading the compiled text *)

\* no callback is running: the calls made so far have returned
Quiet == Len(stack) = 1

IsSeed(t) == t.k = "cond" /\ t.id = <<"_">>

IsUserCond(t) == t.k = "cond" /\ t.id # <<"_">>

UserConds(text) == {i \in 1..Len(text) : IsUserCond(text[i])}

\* position in the text of the k-th condition written by a caller
CondPos(text, k) ==
    CHOOSE i \in UserConds(text) : Cardinality({j \in UserConds(text) : j < i}) = k - 1

\* the keyword that attaches the fragment starting after position i
RECURSIVE ConnBefore(_, _)
ConnBefore(text, i) ==
    IF i = 0 THEN Kw("")
    ELSE IF text[i].k \in {"(", "NOT("} THEN ConnBefore(text, i - 1)
    ELSE text[i]

\* the condition that owns each `?`, left to right
RECURSIVE QOwners(_)
QOwners(text) ==
    IF text = <<>> THEN <<>>
    ELSE LET h == Head(text)
         IN [i \in 1..h.nq |-> [id |-> h.id, op |-> h.op]] \o QOwners(Tail(text))

\* the groups open after the first i tokens
RECURSIVE Open(_, _)
Open(text, i) ==
    IF i = 0 THEN <<>>
    ELSE LET o == Open(text, i - 1)
             t == text[i]
         IN IF t.k \in {"(", "NOT("} THEN Append(o, t.k)
            ELSE IF t.k = ")" THEN SubSeq(o, 1, Len(o) - 1)
            ELSE o

InsideNot(text, p) ==
    LET o == Open(text, p - 1) IN \E j \in 1..Len(o) : o[j] = "NOT("

\* the fragment of the condition at p is NOT (<condition>)
Negated(text, p) == p > 1 /\ text[p - 1].k = "NOT("

\* the logged call that was given the value v
ArgOwner(v) ==
    IF \E k \in 1..Len(log) : log[k].lo <= v /\ v <= log[k].hi
    THEN LET k == CHOOSE k \in 1..Len(log) : log[k].lo <= v /\ v <= log[k].hi
         IN [id |-> log[k].id, op |-> log[k].op]
    ELSE [id |-> <<>>, op |-> ""]

ValOnly == \A k \in 1..Len(log) : log[k].op \notin NullOps

----------------------------------------------------------------------------
(* Claims about the WhereBuilder *)

\* C1: when every condition call made takes a value, getArgs() is the list
\* of the values given, in the order they were given: a node's own values,
\* then those given inside its callback, then those of later siblings.
C1_ArgsInSupplyOrder ==
    (Quiet /\ ValOnly) => getArgs = [i \in 1..nvals |-> i]

C1_Witness ==
    /\ Quiet /\ ValOnly /\ Len(log) = 3
    /\ log[1].cb /\ log[1].op = "IN" /\ log[2].level = 1 /\ log[3].level = 0
    /\ getArgs = <<1, 2, 3, 4>>

\* C2: the text has as many placeholders as getArgs() has values, and the
\* i-th placeholder is in the condition that was given the i-th value.
C2_PlaceholdersMatchArgs ==
    Quiet =>
        /\ Len(QOwners(toString)) = Len(getArgs)
        /\ \A i \in 1..Len(getArgs) : QOwners(toString)[i] = ArgOwner(getArgs[i])

\* C3: a call with a callback adds one parenthesized group holding the
\* node's own fragment and the callback's conditions with their AND/OR,
\* and nothing else: no clause opener and no condition nobody wrote.
C3_NestedGroupOnly ==
    Quiet =>
        /\ \A i \in 2..Len(toString) : toString[i].k # "WHERE" /\ ~IsSeed(toString[i])
        /\ Cardinality(UserConds(toString)) = Len(log)
        /\ Cardinality({i \in 1..Len(toString) : toString[i].k = "("})
             = Cardinality({k \in 1..Len(log) : log[k].cb})

\* C4: a condition is negated exactly when it is the first one appended to
\* its builder after a not(), and a call that appends a node leaves the
\* negation flag clear.
C4_NotNegatesNextOnly ==
    /\ Quiet => \A k \in 1..Len(log) :
                    Negated(toString, CondPos(toString, k)) = log[k].expNeg
    /\ (last.cond /\ last.changed) => ~last.flag

C4_Witness ==
    /\ Quiet /\ Len(log) = 3
    /\ \A k \in 1..3 : log[k].level = 0 /\ ~log[k].inNot
    /\ ~log[1].expNeg /\ log[2].expNeg /\ ~log[3].expNeg
    /\ log[2].flavor = "and" /\ log[3].flavor = "or"
    /\ Negated(toString, CondPos(toString, 2))

\* C5: every condition added inside the callback of not(cb) lies inside
\* the NOT (...) group.
C5_NotCbNegatesAll ==
    Quiet => \A k \in 1..Len(log) :
                log[k].inNot => InsideNot(toString, CondPos(toString, k))

\* C6: in a top-level builder the first condition follows WHERE with no
\* AND/OR; every later one is preceded by OR when an or- flavor added it
\* and by AND otherwise.
C6_Connectors ==
    \A k \in 1..Len(log) :
        ConnBefore(toString, CondPos(toString, k) - 1) =
            IF k = 1 THEN Kw("WHERE")
            ELSE IF log[k].flavor = "or" THEN Kw("OR") ELSE Kw("AND")

C6_Witness ==
    /\ Len(log) = 2 /\ log[1].flavor = "or" /\ log[2].flavor = "or"
    /\ toString[1] = Kw("WHERE") /\ toString[3] = Kw("OR")

\* C7: a condition call with an absent column or required value returns
\* without throwing and leaves text, arguments and negation flag alone.
C7_AbsentInputIsNoOp ==
    (last.cond /\ last.absent) => (~last.threw /\ ~last.changed)

\* C8: after reset() the builder answers like one constructed at that
\* moment and given the same calls.
C8_ResetIsFresh ==
    Quiet => (toString = fresh[1].b.filter /\ getArgs = fresh[1].b.args)

----------------------------------------------------------------------------
(* Claims about join chains *)

Edges(c) == Tail(c.joinStatement)

Calls(c) == c.hist.calls

\* the table that precedes the i-th added table in the chain of c
Preceding(c, i) == IF i = 1 THEN c.hist.base ELSE Calls(c)[i - 1].right

Unnamed(call) == call.leftData.name = NoName /\ call.rightData.name = NoName

Distinct(tables) ==
    \A i, j \in 1..Len(tables) : tables[i] = tables[j] => i = j

\* C9: in a chain of distinct tables built by calls that name no table,
\* the ON condition of every edge equates the left and the right key given
\* in the call that made the edge, qualified by the edge's left and right
\* table.
C9_EdgeUsesItsCallsKeys ==
    \A n \in 1..Len(ctxs) :
        LET c == ctxs[n] IN
        (Distinct(c.tables) /\ \A i \in 1..Len(Calls(c)) : Unnamed(Calls(c)[i])) =>
            \A i \in 1..Len(Calls(c)) :
                /\ i <= Len(Edges(c))
                /\ Edges(c)[i].lq = <<Preceding(c, i)>>
                /\ Edges(c)[i].lk = Calls(c)[i].leftData.key
                /\ Edges(c)[i].rq = <<Calls(c)[i].right>>
                /\ Edges(c)[i].rk = Calls(c)[i].rightData.key

C11_EdgeKeepsItsKind ==
    \A n \in 1..Len(ctxs) :
        LET c == ctxs[n] IN
        \A i \in 1..Len(Calls(c)) :
            i <= Len(Edges(c)) /\ Edges(c)[i].kind = Calls(c)[i].joinType

Made(method) == jcall.made /\ jcall.method = method /\ ~jlast.threw

NewContext == ctxs[Len(ctxs)]

\* the rightmost table of a context
Rightmost(cs, id) ==
    IF IsJoinContext(id) THEN CtxOf(cs, id).tables[Len(CtxOf(cs, id).tables)] ELSE id

\* C12: this.rightJoin(that, leftData, rightData) returns a chain whose last
\* edge is RIGHT JOIN that ON <rightmost table of this>.<leftData.key> =
\* that.<rightData.key>.
C12_RightJoinKeepsThat ==
    Made("rightJoin") =>
        LET e == NewContext.joinStatement[Len(NewContext.joinStatement)] IN
        /\ e.k = "join" /\ e.kind = "RIGHT"
        /\ e.right = <<jcall.that>>
        /\ e.lq = <<Rightmost(jcall.pre, jcall.this)>> /\ e.lk = jcall.leftData.key
        /\ e.rq = <<jcall.that>> /\ e.rk = jcall.rightData.key

\* C13: a join call on a chain leaves that chain's FROM clause, table list
\* and projection as they were and returns a new chain whose table list is
\* the old one followed by the joined table.
C13_ChainsAreNotChanged ==
    (jcall.made /\ ~jlast.threw) =>
        /\ Len(ctxs) = Len(jcall.pre) + 1
        /\ \A i \in 1..Len(jcall.pre) :
              /\ ctxs[i].joinStatement = jcall.pre[i].joinStatement
              /\ ctxs[i].tables = jcall.pre[i].tables
              /\ ctxs[i].columns = jcall.pre[i].columns
        /\ IsJoinContext(jcall.this) =>
              NewContext.tables = CtxOf(jcall.pre, jcall.this).tables \o <<jcall.that>>

\* C14: a join call with a descriptor that has no key throws, makes no join
\* context and leaves the join key of every context as it was.
C14_MissingKeyThrowsFirst ==
    (jcall.made /\ (~jcall.leftData.hasKey \/ ~jcall.rightData.hasKey)) =>
        /\ jlast.threw
        /\ ctxs = jcall.pre
        /\ joinKey = jcall.keys

C14_Witness ==
    /\ jcall.made /\ jcall.method = "leftJoin" /\ ~jcall.rightData.hasKey
    /\ jcall.this = "J1" /\ jcall.that = "Track"
    /\ jlast.threw /\ Len(ctxs) = 1
    /\ joinKey["Artist"] = "AlbumId" /\ joinKey["J1"] = NoKey /\ joinKey["Track"] = NoKey

\* the direction a key carries: the one set on it last, or none
DirectionOf(key) ==
    IF key.dirs = <<>> THEN <<>> ELSE <<key.dirs[Len(key.dirs)]>>

\* C16: toString() of an OrderBuilder is empty when no key was appended and
\* otherwise ORDER BY followed by the keys in append order, each with the
\* direction set on it or none.
C16_KeysInOrderWithDirection ==
    LET text == OrderToString(order) IN
        /\ (okeys = <<>>) <=> (text = <<>>)
        /\ okeys # <<>> =>
              /\ text[1] = Kw("ORDER BY")
              /\ Len(text) = Len(okeys) + 1
              /\ \A i \in 1..Len(okeys) :
                    /\ text[i + 1].id = QuoteId(okeys[i].col)
                    /\ text[i + 1].dirs = DirectionOf(okeys[i])

BucketAlias ==
    [byDay |-> "$yearDay", byWeek |-> "$yearWeek", byMonth |-> "$yearMonth", byYear |-> "$year"]

\* C18: toString() and getSelects() of a GroupBuilder list the keys of the
\* by/byDay/byWeek/byMonth/byYear calls in call order. With no key the
\* clause is empty and the projection is the wildcard; otherwise the
\* projection is COUNT(*) AS $count followed by each key's expression under
\* its alias, and GROUP BY names each key by its alias, or by its column
\* when it has none, so every alias in GROUP BY is defined in the projection.
C18_GroupKeysAndSelectsAgree ==
    LET text == GroupToString(group)
        sel  == getSelects(group)
        n    == Len(glog)
    IN  IF n = 0 THEN text = <<>> /\ sel = <<Star>>
        ELSE /\ text[1] = Kw("GROUP BY")
             /\ Len(text) = n + 1
             /\ Len(sel) = n + 1
             /\ sel[1] = CountStar
             /\ \A i \in 1..n :
                   /\ sel[i + 1].expr = KeyExpr(glog[i].method, glog[i].col)
                   /\ sel[i + 1].as = AliasOf(glog[i].method)
                   /\ glog[i].method = "by" =>
                         /\ sel[i + 1].as = NoAlias
                         /\ text[i + 1].name = sel[i + 1].expr
                   /\ glog[i].method # "by" =>
                         /\ sel[i + 1].as = BucketAlias[glog[i].method]
                         /\ text[i + 1].name = AliasRef(sel[i + 1].as)

C18_Witness ==
    /\ Len(glog) = 2
    /\ glog[1].method = "by" /\ glog[1].col = <<"Country">>
    /\ glog[2].method = "byYear" /\ glog[2].col = <<"Employee", "HireDate">>
    /\ GroupToString(group)[3].name = AliasRef("$year")
    /\ getSelects(group)[3].as = "$year"

\* the clauses of a statement that are of kind k
ClausesOf(stmt, k) == {i \in 1..Len(stmt.tail) : stmt.tail[i].k = k}

\* C15: on a join context insertOne, insertMany, update, updateAll, delete
\* and truncate are rejected and hand nothing to the execution layer,
\* whatever their arguments and the options of the joined table, while
\* count, get and getAll hand it one SELECT over the join.
C15_JoinContextIsReadOnly ==
    (oper.made /\ oper.ctx.kind = "join") =>
        /\ oper.method \in Mutations => (oper.rejected /\ sent = <<>>)
        /\ (oper.method \in Queries /\ ~RunOrder(oper.orderBy).threw) =>
              /\ ~oper.rejected
              /\ Len(sent) = 1
              /\ sent[1].via = "_query"
              /\ sent[1].verb = "SELECT"
              /\ sent[1].from = oper.ctx.joinStatement

C15_Witness ==
    /\ oper.made /\ oper.ctx.kind = "join"
    /\ oper.ctx.of.allowTruncation /\ oper.ctx.of.allowUpdateOnAll
    /\ oper.method = "delete"
    /\ oper.where.given /\ Len(RunWhere(oper.where).b.args) = 2
    /\ oper.rejected /\ sent = <<>>

\* C19: a get or getAll whose statement has a GROUP BY clause selects
\* exactly getSelects() of the GroupBuilder, the $count column and the group
\* keys, whatever the other arguments are.
C19_GroupedSelectIsGetSelects ==
    (oper.made /\ oper.method \in {"get", "getAll"} /\ ~oper.rejected) =>
        (ClausesOf(sent[1], "GROUP BY") # {} =>
            /\ sent[1].select.cols = getSelects(RunGroup(oper.groupBy))
            /\ sent[1].select.cols[1] = CountStar)

\* C20: update and delete of a table context hand the execution layer only
\* statements that have a WHERE clause; without a where callback, or with
\* one that builds no clause, they are rejected and hand it nothing.
C20_NoUpdateOrDeleteWithoutWhere ==
    (oper.made /\ oper.ctx.kind = "table" /\ oper.method \in {"update", "delete"}) =>
        /\ \A i \in 1..Len(sent) :
              /\ sent[i].verb = (IF oper.method = "update" THEN "UPDATE" ELSE "DELETE")
              /\ \E j \in ClausesOf(sent[i], "WHERE") :
                    /\ Len(sent[i].tail[j].text) >= 2
                    /\ sent[i].tail[j].text[1] = Kw("WHERE")
        /\ (~oper.where.given \/ RunWhere(oper.where).b.filter = <<>>) =>
              (oper.rejected /\ sent = <<>>)

C20_Witness ==
    /\ oper.made /\ oper.ctx.kind = "table" /\ oper.method = "update"
    /\ Len(oper.record) > 0
    /\ oper.where.given /\ oper.where.steps # <<>>
    /\ RunWhere(oper.where).b.filter = <<>>
    /\ oper.rejected /\ sent = <<>>

\* the keys of a record other than the auto-increment key
OtherKeys(ctx, record) == SelectSeq(record, LAMBDA k : k # ctx.incKey)

\* C22: updateAll is rejected and hands nothing on unless allowUpdateOnAll
\* is set; when it is set, the UPDATE has no WHERE clause and sets every key
\* of the record but the auto-increment key, with the values in the same
\* order, whether or not the context has an auto-increment key.
C22_UpdateAllSetsEveryKey ==
    (oper.made /\ oper.ctx.kind = "table" /\ oper.method = "updateAll") =>
        /\ ~oper.ctx.options.allowUpdateOnAll => (oper.rejected /\ sent = <<>>)
        /\ (oper.ctx.options.allowUpdateOnAll /\ Len(oper.record) > 0) =>
              /\ ~oper.rejected
              /\ Len(sent) = 1
              /\ sent[1].verb = "UPDATE"
              /\ sent[1].tail = <<>>
              /\ sent[1].sets = OtherKeys(oper.ctx, oper.record)
              /\ sent[1].args.record = OtherKeys(oper.ctx, oper.record)

\* where a clause stands in a SELECT
ClauseRank(k) ==
    CASE k = "WHERE" -> 1 [] k = "GROUP BY" -> 2 [] k = "ORDER BY" -> 3
      [] k = "LIMIT" -> 4 [] k = "OFFSET" -> 5

\* C27: every SELECT that get and getAll compile, on a table context or on a
\* join context, has its clauses in the order WHERE, GROUP BY, ORDER BY,
\* LIMIT, OFFSET.
C27_ClausesInSqlOrder ==
    (oper.made /\ oper.method \in {"get", "getAll"}) =>
        \A n \in 1..Len(sent) : \A i, j \in 1..Len(sent[n].tail) :
            i < j => ClauseRank(sent[n].tail[i].k) < ClauseRank(sent[n].tail[j].k)

\* return ts[0]["$count"]: the field of the first row that count returns
CountField == "$count"

\* C28: the alias that the statement of count gives to its COUNT column is
\* the field count reads from the first row, with and without distinct, on
\* table contexts and on join contexts.
C28_CountReadsItsAlias ==
    (oper.made /\ oper.method = "count" /\ ~oper.rejected) =>
        /\ Len(sent) = 1
        /\ sent[1].select.count
        /\ sent[1].select.as = CountField

\* C30: the builder that a where callback leaves has no arguments exactly
\* when it has no clause text, so update and delete, whose guard counts the
\* arguments, reject a call if and only if no WHERE clause was built.
C30_NoArgsIffNoClause ==
    (/\ oper.made
     /\ oper.ctx.kind = "table"
     /\ oper.method \in {"update", "delete"}
     /\ oper.method = "update" => Len(oper.record) > 0
     /\ oper.where.given
     /\ ~RunWhere(oper.where).threw) =>
        /\ (Len(RunWhere(oper.where).b.args) = 0) <=> (RunWhere(oper.where).b.filter = <<>>)
        /\ oper.rejected <=> (RunWhere(oper.where).b.filter = <<>>)

\* no call removes or reorders keys
KeysAppendOnly ==
    /\ Len(order'.columns) >= Len(order.columns)
    /\ \A i \in 1..Len(order.columns) : order'.columns[i].id = order.columns[i].id

\* the keys that a step changes
KeysChanged == {i \in 1..Len(order.columns) : order'.columns[i] # order.columns[i]}

\* the chain objects whose asc() or desc() a step calls
ChainsCalled == {i \in 1..Len(okeys) : okeys'[i].dirs # okeys[i].dirs}

\* C26 as stated: the key list is append-only and a direction call changes
\* only the key that is the last one appended at the time of the call.
C26_DirectionChangesLastKeyOnly ==
    [][KeysAppendOnly /\ KeysChanged \subseteq {Len(order.columns)}]_vars

\* C26: the key list is append-only, and a direction call changes only the
\* key that its chain object was returned for by by(), whether or not keys
\* were appended after it.
C26_DirectionChangesOwnKeyOnly ==
    [][KeysAppendOnly /\ KeysChanged = ChainsCalled]_vars

\* a direction call on the chain object of the first key, made after the
\* second key was appended
C26_Witness ==
    /\ Len(order.columns) = 2
    /\ olast.method \in Dirs /\ olast.on = "chain" /\ olast.after = "by"
    /\ order.columns[1].dirs = <<olast.method>>
    /\ order.columns[2].dirs = <<>>

\* C29: the FROM clause of a join chain is the one that the join calls that
\* built the chain render when nothing else uses their table contexts: join
\* calls made for other chains change no key and no name in it.
C29_FromClauseOfOwnCallsOnly ==
    \A i \in 1..Len(ctxs) : ctxs[i].joinStatement = FromAlone(ctxs[i].hist)

\* the commands that call i handed to the pool
PooledOf(i) == {n \in 1..Len(pooled) : pooled[n].call = i}

\* the events emitted during call i
EmittedOf(i) == {n \in 1..Len(emitted) : emitted[n].call = i}

Settled(i) == flight[i].pc \in {"resolved", "rejected"}

\* C21: truncate is rejected and hands nothing to the pool unless the context
\* was created with allowTruncation; with allowTruncation, and the connection
\* made, a TRUNCATE command for the table is handed to the pool, and the call
\* resolves when the pool has executed it.
C21_TruncateReachesThePool ==
    \A i \in 1..Len(flight) :
        (context.kind = "table" /\ flight[i].method = "truncate") =>
            /\ ~context.options.allowTruncation =>
                  (flight[i].pc = "rejected" /\ PooledOf(i) = {})
            /\ (context.options.allowTruncation /\ cnn = "ok"
                    /\ flight[i].pc # "connecting") =>
                  /\ \E n \in PooledOf(i) : /\ pooled[n].stmt.verb = "TRUNCATE"
                                             /\ pooled[n].stmt.from = <<TableRef(context, TRUE)>>
                  /\ flight[i].pc = "rejected" => FailEvent("_delete") \in
                        {emitted[n].event : n \in EmittedOf(i)}

\* the layer whose failures a handler is registered for
FailLayer(method) ==
    CASE method = "onQueryFail" -> "_query" [] method = "onInsertFail" -> "_insert"
      [] method = "onUpdateFail" -> "_update" [] method = "onDeleteFail" -> "_delete"

Called(m, i) == \E n \in EmittedOf(i) : m \in emitted[n].called

\* C23: a handler registered with onQueryFail, onInsertFail, onUpdateFail or
\* onDeleteFail is called when a command of its kind fails on the context
\* and is not called when a command of its kind succeeds.
C23_FailHandlerCalledOnFailureOnly ==
    \A m \in listeners \cap {"onQueryFail", "onInsertFail", "onUpdateFail", "onDeleteFail"} :
        \A i \in 1..Len(flight) :
            (cnn = "ok" /\ flight[i].via = FailLayer(m)) =>
                /\ flight[i].pc = "rejected" => Called(m, i)
                /\ flight[i].pc = "resolved" => ~Called(m, i)

\* C24: a command that went through _query, _insert, _update or _delete and
\* is settled has emitted exactly one event: the success event if it was
\* executed and resolved, the fail event if it failed and was rejected.
C24_ExactlyOneEventPerCommand ==
    \A i \in 1..Len(flight) :
        (cnn = "ok" /\ flight[i].via \in Layers /\ Settled(i)) =>
            /\ Cardinality(EmittedOf(i)) = 1
            /\ \A n \in EmittedOf(i) :
                  emitted[n].event = IF flight[i].pc = "resolved"
                                     THEN SuccessEvent(flight[i].via)
                                     ELSE FailEvent(flight[i].via)

\* the command call i compiles when it is the only call on the context
Alone(i) == Operation(context, flight[i].method, ArgsOf(flight[i])).sent[1]

====
